---- MODULE Spec2Model ----
(***************************************************************************)
(* GuessMaster-2025: the session registry (GameManager, game_logic.py) and *)
(* its score store, as a state machine of request-handler threads and the  *)
(* background cleanup timer.                                               *)
(***************************************************************************)
EXTENDS Integers, Sequences, FiniteSets, TLC

\* ------------------------------------------------------------ bounds
\* Number of uuid4 game ids that may be minted in one behaviour of SpecCreate.
MaxCreates == 3
\* Number of _save_score calls made by the front end in one behaviour of SpecStore.
MaxPuts == 2
\* Number of uuid4 game ids that may be minted in one behaviour.
MaxGames == 1
\* The clock runs from 0 to MaxTicks, one tick being TickSeconds seconds.
MaxTicks == 2
TickSeconds == 43200
\* process_guess is not called on a game whose attempts counter has reached AttemptCap.
AttemptCap == 8

\* ------------------------------------------------------------ constants
\* datetime.timedelta.seconds is the seconds component, 0 <= seconds < 86400.
SecondsPerDay == 86400
SESSION_TIMEOUT == 30 * 60
MAX_CUSTOM == 1000000
MAX_ATTEMPTS == [single |-> 6, multi |-> 8]
RANGES == [easy |-> <<1, 50>>, medium |-> <<1, 100>>, hard |-> <<1, 500>>]
MULTI_RANGE == <<1, 100>>

\* ------------------------------------------------------------ threads
Timer == 0
Callers == {1, 2}
Threads == {Timer} \cup Callers

VARIABLES
    active_games,   \* the ids that are keys of self.active_games
    games,          \* the game dict objects, by id (an object outlives its key)
    uuids,          \* how many uuid4 ids have been minted
    lock,           \* self._lock: None when free, <<t>> when thread t holds it
    now,            \* datetime.now(), in ticks
    scores,         \* the files under data/: the score file of each mode and its .tmp
    pc,             \* per thread: where it is in its handler
    loc,            \* per thread: the handler's local variables
    pending,        \* per thread: the game dict a start_* call has built
    sweep,          \* the cleanup run's locals: now, expired
    result,         \* per thread: what its last call returned or raised
    call,           \* per thread (history): its last call and the session as the call found it
    hist,           \* (history): the puts the score files have taken and the ids the creates returned
    term            \* the terminal game: the locals of play_singleplayer / play_round

vars == <<active_games, games, uuids, lock, now, scores, pc, loc, pending, sweep, result, call, hist, term>>

\* ------------------------------------------------------------ values
\* Python's None for game['target']: the empty tuple; an int n is <<n>>.
None == <<>>
\* A file under data/: valid JSON holding a table, or Corrupt: content json.load
\* rejects (an empty or half-written file) or no file at all.
ScoreFile(table) == [valid |-> TRUE, table |-> table]
Corrupt == [valid |-> FALSE, table |-> << >>]
NoGame == [mode |-> "none"]
NoLoc ==
    [gid |-> 0, arg |-> None, tmp |-> 0, ret |-> "none", mode |-> "none", key |-> "none",
     scores |-> << >>]
NoResult ==
    [op |-> "none", kind |-> "none", err |-> "none", gid |-> 0,
     attempts |-> 0, remaining |-> 0, hint |-> "none", target |-> None,
     range |-> <<0, 0>>, max_attempts |-> 0, scores |-> << >>]

NoCall ==
    [op |-> "none", gid |-> 0, arg |-> None, live |-> FALSE, stale |-> FALSE, idle |-> FALSE,
     game |-> NoGame, mode |-> "none", key |-> "none"]

Res(op, kind, gid) == [NoResult EXCEPT !.op = op, !.kind = kind, !.gid = gid]
Err(op, err, gid) == [NoResult EXCEPT !.op = op, !.kind = "error", !.err = err, !.gid = gid]

IsInt(x) == Len(x) = 1
InRange(n, range) == n >= range[1] /\ n <= range[2]

\* The dict objects still reachable once thread t drops its reference: those
\* under a key of active_games and those another handler holds in its local `game`.
Reachable(g, act, t) ==
    [gid \in (DOMAIN g) \cap (act \cup {loc[u].gid : u \in Threads \ {t}}) |-> g[gid]]

\* ------------------------------------------------------------ time
\* (datetime.now() - start_time).seconds > self.SESSION_TIMEOUT
ElapsedSeconds(start_time, t) == (t - start_time) * TickSeconds
TimedeltaSeconds(start_time, t) == ElapsedSeconds(start_time, t) % SecondsPerDay
SessionTimedOut(game, t) == TimedeltaSeconds(game.start_time, t) > SESSION_TIMEOUT

\* The spec's notion: more than the idle timeout has passed since start_time.
IdleTimeoutExceeded(game, t) == ElapsedSeconds(game.start_time, t) > SESSION_TIMEOUT

\* The terminal front ends' module constants, both named MAX_ATTEMPTS.
SINGLE_MAX_ATTEMPTS == 6
MULTI_MAX_ATTEMPTS == 8

\* No terminal round has been started: the program is at its menu.
NoRound ==
    [pc |-> "menu", mode |-> "none", key |-> "none", range |-> <<0, 0>>, secret |-> 0,
     attempts |-> 0, guess |-> None, ending |-> "none", saved |-> None, wrong |-> 0]

\* ------------------------------------------------------------ initial state
Init ==
    /\ active_games = {}
    /\ games = << >>
    /\ uuids = 0
    /\ lock = None
    /\ now = 0
    /\ scores \in {[single |-> ScoreFile(<< >>), multi |-> ScoreFile(<< >>),
                    single_tmp |-> Corrupt, multi_tmp |-> Corrupt],
                   [single |-> Corrupt, multi |-> ScoreFile(<< >>),
                    single_tmp |-> Corrupt, multi_tmp |-> Corrupt]}
    /\ pc = [t \in Threads |-> IF t = Timer THEN "armed" ELSE "idle"]
    /\ loc = [t \in Threads |-> NoLoc]
    /\ pending = [t \in Threads |-> NoGame]
    /\ sweep = [now |-> 0, expired |-> {}]
    /\ result = [t \in Threads |-> NoResult]
    /\ call = [t \in Threads |-> NoCall]
    /\ hist = [puts |-> << >>, created |-> << >>]
    /\ term = NoRound

\* History only: the call thread t starts now, and the session it names as it is now.
Called(t, op, gid, arg) ==
    call' = [call EXCEPT ![t] =
               [NoCall EXCEPT
                  !.op = op, !.gid = gid, !.arg = arg,
                  !.live = gid \in active_games,
                  !.stale = gid \in active_games /\ SessionTimedOut(games[gid], now),
                  !.idle = gid \in active_games /\ IdleTimeoutExceeded(games[gid], now),
                  !.game = IF gid \in active_games THEN games[gid] ELSE NoGame]]

Return(t, r) ==
    /\ pc' = [pc EXCEPT ![t] = "idle"]
    /\ loc' = [loc EXCEPT ![t] = NoLoc]
    /\ result' = [result EXCEPT ![t] = r]

Goto(t, label, l) ==
    /\ pc' = [pc EXCEPT ![t] = label]
    /\ loc' = [loc EXCEPT ![t] = l]
    /\ result' = [result EXCEPT ![t] = NoResult]

\* ------------------------------------------------------------ start_singleplayer
\* An id generator that comes back to ids it has given out.
Uuid4Repeating == (uuids % 2) + 1

\* str(uuid.uuid4()): an id no earlier call was given
Uuid4 == uuids + 1

\* The checks with line 77 reading < where the code reads <=.
ValidCustomRangeLoose(range_min, range_max) ==
    /\ range_min >= 1
    /\ range_max >= range_min
    /\ range_max <= MAX_CUSTOM

ValidCustomRange(range_min, range_max) ==
    /\ range_min >= 1
    /\ range_max > range_min
    /\ range_max <= MAX_CUSTOM

\* Draws one outside each end of the range.
TargetDrawsWide(range) == {range[1] - 1, range[2] + 1}

\* random.randint(range_min, range_max), drawn at the two ends of the range
TargetDraws(range) == {range[1], range[2]}

\* The (range_min, range_max) start_singleplayer resolves, or None when it raises.
ResolveRange(difficulty, custom_range) ==
    IF difficulty = "custom"
    THEN IF Len(custom_range) # 2 THEN None
         ELSE IF ValidCustomRange(custom_range[1], custom_range[2]) THEN custom_range ELSE None
    ELSE IF difficulty \in DOMAIN RANGES THEN RANGES[difficulty] ELSE None

SingleGame(target, range, difficulty) ==
    [mode |-> "single", target |-> <<target>>, attempts |-> 0,
     max_attempts |-> MAX_ATTEMPTS["single"], range |-> range,
     difficulty |-> difficulty, status |-> "absent", start_time |-> 0]

StartSingleplayer(t, difficulty, custom_range) ==
    /\ pc[t] = "idle"
    /\ call' = [call EXCEPT ![t] =
                  [NoCall EXCEPT !.op = "start_singleplayer", !.arg = custom_range,
                                 !.key = difficulty]]
    /\ LET range == ResolveRange(difficulty, custom_range) IN
       IF range = None
       THEN /\ Return(t, Err("start_singleplayer", "validation", 0))
            /\ UNCHANGED <<uuids, pending>>
       ELSE /\ \E target \in TargetDraws(range) :
                 pending' = [pending EXCEPT ![t] = SingleGame(target, range, difficulty)]
            /\ uuids' = uuids + 1
            /\ Goto(t, "ins_lock", [NoLoc EXCEPT !.gid = Uuid4])
    /\ UNCHANGED <<active_games, games, lock, now, scores, sweep, hist, term>>

\* ------------------------------------------------------------ start_multiplayer
\* The dict with the single-player ceiling in the place of MAX_ATTEMPTS['multi'].
MultiGameSingleCeiling(start_time) ==
    [mode |-> "multi", target |-> None, attempts |-> 0,
     max_attempts |-> MAX_ATTEMPTS["single"], range |-> MULTI_RANGE,
     difficulty |-> "absent", status |-> "waiting_for_number", start_time |-> start_time]

MultiGame(start_time) ==
    [mode |-> "multi", target |-> None, attempts |-> 0,
     max_attempts |-> MAX_ATTEMPTS["multi"], range |-> MULTI_RANGE,
     difficulty |-> "absent", status |-> "waiting_for_number", start_time |-> start_time]

StartMultiplayer(t, player1, player2) ==
    /\ pc[t] = "idle"
    /\ Called(t, "start_multiplayer", 0, <<player1, player2>>)
    /\ IF player1 = "" \/ player2 = "" \/ player1 = player2
       THEN /\ Return(t, Err("start_multiplayer", "validation", 0))
            /\ UNCHANGED <<uuids, pending>>
       ELSE /\ pending' = [pending EXCEPT ![t] = MultiGame(now)]
            /\ uuids' = uuids + 1
            /\ Goto(t, "ins_lock", [NoLoc EXCEPT !.gid = Uuid4])
    /\ UNCHANGED <<active_games, games, lock, now, scores, sweep, hist, term>>

\* with self._lock: (entering)
InsertAcquire(t) ==
    /\ pc[t] = "ins_lock"
    /\ lock = None
    /\ lock' = <<t>>
    /\ pc' = [pc EXCEPT ![t] = "ins_body"]
    /\ UNCHANGED <<active_games, games, uuids, now, scores, loc, pending, sweep, result, call, hist, term>>

\* self.active_games[game_id] = {...}; the lock is released; the dict is returned
InsertBody(t) ==
    /\ pc[t] = "ins_body"
    /\ LET gid == loc[t].gid
           game == IF pending[t].mode = "single"
                   THEN [pending[t] EXCEPT !.start_time = now]
                   ELSE pending[t]
       IN /\ games' = (gid :> game) @@ games
          /\ active_games' = active_games \cup {gid}
          /\ Return(t, [Res(IF game.mode = "single" THEN "start_singleplayer"
                            ELSE "start_multiplayer", "ok", gid)
                          EXCEPT !.range = game.range, !.max_attempts = game.max_attempts])
    /\ lock' = None
    /\ pending' = [pending EXCEPT ![t] = NoGame]
    /\ hist' = [hist EXCEPT !.created = Append(@, loc[t].gid)]
    /\ UNCHANGED <<uuids, now, scores, sweep, call, term>>

\* ------------------------------------------------------------ set_target_number
\* The checks without the one of line 180 (_validate_number_range).
SetTargetErrorNoRangeCheck(gid, number) ==
    IF gid \notin active_games THEN "invalid_session"
    ELSE IF games[gid].status = "absent" THEN "KeyError"
    ELSE IF games[gid].status # "waiting_for_number" THEN "phase"
    ELSE "none"

\* The checks without the one of lines 177-178 (the status).
SetTargetErrorNoPhaseCheck(gid, number) ==
    IF gid \notin active_games THEN "invalid_session"
    ELSE IF games[gid].status = "absent" THEN "KeyError"
    ELSE IF ~IsInt(number) \/ ~InRange(number[1], games[gid].range) THEN "range"
    ELSE "none"

\* Lines 174-180: the checks; the call raises unless all of them pass.
SetTargetError(gid, number) ==
    IF gid \notin active_games THEN "invalid_session"
    ELSE IF games[gid].status = "absent" THEN "KeyError"
    ELSE IF games[gid].status # "waiting_for_number" THEN "phase"
    ELSE IF ~IsInt(number) \/ ~InRange(number[1], games[gid].range) THEN "range"
    ELSE "none"

SetTargetNumber(t, gid, number) ==
    /\ pc[t] = "idle"
    /\ Called(t, "set_target_number", gid, number)
    /\ IF SetTargetError(gid, number) # "none"
       THEN Return(t, Err("set_target_number", SetTargetError(gid, number), gid))
       ELSE Goto(t, "st_write", [NoLoc EXCEPT !.gid = gid, !.arg = number])
    /\ UNCHANGED <<active_games, games, uuids, lock, now, scores, pending, sweep, hist, term>>

\* Lines 182-184: the three stores into the game dict.
SetTargetWrite(t) ==
    /\ pc[t] = "st_write"
    /\ games' = Reachable([games EXCEPT ![loc[t].gid] =
                   [@ EXCEPT !.target = loc[t].arg, !.status = "in_progress", !.attempts = 0]],
                   active_games, t)
    /\ Return(t, Res("set_target_number", "ok", loc[t].gid))
    /\ UNCHANGED <<active_games, uuids, lock, now, scores, pending, sweep, call, hist, term>>

\* ------------------------------------------------------------ process_guess
\* The checks of the guess without the one of lines 195-196 (the range).
GuessErrorNoRangeCheck(gid, guess) ==
    IF gid \notin active_games THEN "invalid_session"
    ELSE IF ~IsInt(guess) THEN "type"
    ELSE "none"

\* Lines 189-196: _validate_game_session, then the checks of the guess.
GuessError(gid, guess) ==
    IF gid \notin active_games THEN "invalid_session"
    ELSE IF ~IsInt(guess) THEN "type"
    ELSE IF ~InRange(guess[1], games[gid].range) THEN "range"
    ELSE "none"

ProcessGuess(t, gid, guess) ==
    /\ pc[t] = "idle"
    /\ Called(t, "process_guess", gid, guess)
    /\ IF gid \in active_games /\ SessionTimedOut(games[gid], now)
       THEN Goto(t, "eg_lock", [NoLoc EXCEPT !.gid = gid, !.ret = "expired"])
       ELSE IF GuessError(gid, guess) # "none"
       THEN Return(t, Err("process_guess", GuessError(gid, guess), gid))
       ELSE Goto(t, "pg_read", [NoLoc EXCEPT !.gid = gid, !.arg = guess])
    /\ UNCHANGED <<active_games, games, uuids, lock, now, scores, pending, sweep, hist, term>>

\* game['attempts'] += 1 is a load, an add and a store: the load
GuessLoadAttempts(t) ==
    /\ pc[t] = "pg_read"
    /\ pc' = [pc EXCEPT ![t] = "pg_write"]
    /\ loc' = [loc EXCEPT ![t].tmp = games[loc[t].gid].attempts]
    /\ UNCHANGED <<active_games, games, uuids, lock, now, scores, pending, sweep, result, call, hist, term>>

\* ... and the store
GuessStoreAttempts(t) ==
    /\ pc[t] = "pg_write"
    /\ games' = [games EXCEPT ![loc[t].gid].attempts = loc[t].tmp + 1]
    /\ pc' = [pc EXCEPT ![t] = "pg_decide"]
    /\ UNCHANGED <<active_games, uuids, lock, now, scores, loc, pending, sweep, result, call, hist, term>>

\* _handle_continue with the two hints exchanged.
HandleContinueSwapped(game, gid, guess) ==
    IF game.target = None
    THEN Err("process_guess", "TypeError", gid)
    ELSE [Res("process_guess", "continue", gid) EXCEPT
            !.hint = IF guess > game.target[1] THEN "higher" ELSE "lower",
            !.attempts = game.attempts,
            !.remaining = game.max_attempts - game.attempts]

\* _handle_continue's dict, or the TypeError of guess > None
HandleContinue(game, gid, guess) ==
    IF game.target = None
    THEN Err("process_guess", "TypeError", gid)
    ELSE [Res("process_guess", "continue", gid) EXCEPT
            !.hint = IF guess > game.target[1] THEN "lower" ELSE "higher",
            !.attempts = game.attempts,
            !.remaining = game.max_attempts - game.attempts]

\* _handle_win's dict
HandleWin(game, gid) ==
    [Res("process_guess", "win", gid) EXCEPT !.attempts = game.attempts, !.target = game.target]

\* _handle_loss's dict
HandleLoss(game, gid) ==
    [Res("process_guess", "lose", gid) EXCEPT !.target = game.target]

\* The branches with line 205 reading > where the code reads >=.
OutcomeLateLoss(game, guess) ==
    IF <<guess>> = game.target THEN "win"
    ELSE IF game.attempts > game.max_attempts THEN "lose"
    ELSE "continue"

\* Lines 200-210: which of the three branches the guess takes.
Outcome(game, guess) ==
    IF <<guess>> = game.target THEN "win"
    ELSE IF game.attempts >= game.max_attempts THEN "lose"
    ELSE "continue"

GuessDecide(t) ==
    /\ pc[t] = "pg_decide"
    /\ LET gid == loc[t].gid
           game == games[gid]
           guess == loc[t].arg[1]
           out == Outcome(game, guess)
       IN CASE out = "win" /\ game.mode = "single" ->
                 \* _handle_win calls _save_score('single', difficulty, attempts)
                 /\ pc' = [pc EXCEPT ![t] = "sv_lock"]
                 /\ loc' = [loc EXCEPT ![t].tmp = game.attempts, ![t].ret = "win",
                                       ![t].mode = "single", ![t].key = game.difficulty]
                 /\ UNCHANGED result
            [] out = "win" /\ game.mode # "single" ->
                 /\ pc' = [pc EXCEPT ![t] = "pg_pop"]
                 /\ loc' = [loc EXCEPT ![t].tmp = game.attempts, ![t].ret = "win"]
                 /\ UNCHANGED result
            [] out = "lose" ->
                 /\ pc' = [pc EXCEPT ![t] = "pg_pop"]
                 /\ loc' = [loc EXCEPT ![t].ret = "lose"]
                 /\ UNCHANGED result
            [] out = "continue" ->
                 Return(t, HandleContinue(game, gid, guess))
    /\ games' = IF Outcome(games[loc[t].gid], loc[t].arg[1]) = "continue"
                THEN Reachable(games, active_games, t) ELSE games
    /\ UNCHANGED <<active_games, uuids, lock, now, scores, pending, sweep, call, hist, term>>

\* self.active_games.pop(game_id); return result
GuessPop(t) ==
    /\ pc[t] = "pg_pop"
    /\ LET gid == loc[t].gid IN
       IF gid \in active_games
       THEN /\ active_games' = active_games \ {gid}
            /\ Return(t, IF loc[t].ret = "win"
                         THEN [HandleWin(games[gid], gid) EXCEPT !.attempts = loc[t].tmp]
                         ELSE HandleLoss(games[gid], gid))
       ELSE /\ Return(t, Err("process_guess", "KeyError", gid))
            /\ UNCHANGED active_games
    /\ games' = Reachable(games, active_games', t)
    /\ UNCHANGED <<uuids, lock, now, scores, pending, sweep, call, hist, term>>

\* ------------------------------------------------------------ _save_score
\* The put of the multi branch (line 289) taken for every mode.
PutScoreOverwrite(mode, table, identifier, score_data) ==
    (identifier :> score_data) @@ table

\* Lines 284-289: the table after the put.
PutScore(mode, table, identifier, score_data) ==
    IF mode = "single"
    THEN IF identifier \notin DOMAIN table \/ score_data < table[identifier]
         THEN (identifier :> score_data) @@ table
         ELSE table
    ELSE (identifier :> score_data) @@ table

\* Line 280 without the lock: the body is entered whoever holds the lock.
SaveScoreNoLock(t) ==
    /\ pc[t] = "sv_lock"
    /\ pc' = [pc EXCEPT ![t] = "sv_body"]
    /\ UNCHANGED <<active_games, games, uuids, lock, now, scores, loc, pending, sweep, result, call, hist, term>>

\* with self._lock: (entering)
SaveScoreAcquire(t) ==
    /\ pc[t] = "sv_lock"
    /\ lock = None
    /\ lock' = <<t>>
    /\ pc' = [pc EXCEPT ![t] = "sv_body"]
    /\ UNCHANGED <<active_games, games, uuids, now, scores, loc, pending, sweep, result, call, hist, term>>

\* _save_score as the front end calls it (app.py, the scores route)
SaveScore(t, mode, identifier, score_data) ==
    /\ pc[t] = "idle"
    /\ call' = [call EXCEPT ![t] =
                  [NoCall EXCEPT !.op = "save_score", !.arg = <<score_data>>,
                                 !.mode = mode, !.key = identifier]]
    /\ Goto(t, "sv_lock", [NoLoc EXCEPT !.mode = mode, !.key = identifier,
                                        !.tmp = score_data, !.ret = "save_score"])
    /\ UNCHANGED <<active_games, games, uuids, lock, now, scores, pending, sweep, hist, term>>

\* Lines 281-289 under the lock: json.load, then the put into the loaded table.
\* json.load (or open) raising leaves the with block, which releases the lock, and
\* becomes GameError("Failed to save score"), which process_guess re-raises.
SaveScoreLoad(t) ==
    /\ pc[t] = "sv_body"
    /\ LET file == scores[loc[t].mode] IN
       IF ~file.valid
       THEN /\ lock' = None
            /\ Return(t, Err(IF loc[t].ret = "win" THEN "process_guess" ELSE "save_score",
                             "save_score", loc[t].gid))
       ELSE /\ pc' = [pc EXCEPT ![t] = "sv_open"]
            /\ loc' = [loc EXCEPT ![t].scores =
                          PutScore(loc[t].mode, file.table, loc[t].key, loc[t].tmp)]
            /\ UNCHANGED <<lock, result>>
    /\ games' = IF scores[loc[t].mode].valid THEN games ELSE Reachable(games, active_games, t)
    /\ UNCHANGED <<active_games, uuids, now, scores, pending, sweep, call, hist, term>>

\* The durable file's own name in the place of the temporary one.
DurableName(mode) == mode

\* temp_file = f"{filename}.tmp"
TempName(mode) == IF mode = "single" THEN "single_tmp" ELSE "multi_tmp"

\* open(temp_file, 'w'): the file is there and empty
SaveScoreOpenTemp(t) ==
    /\ pc[t] = "sv_open"
    /\ scores' = [scores EXCEPT ![TempName(loc[t].mode)] = Corrupt]
    /\ pc' = [pc EXCEPT ![t] = "sv_dump"]
    /\ UNCHANGED <<active_games, games, uuids, lock, now, loc, pending, sweep, result, call, hist, term>>

\* json.dump(scores, f), and the file is closed
SaveScoreDump(t) ==
    /\ pc[t] = "sv_dump"
    /\ scores' = [scores EXCEPT ![TempName(loc[t].mode)] = ScoreFile(loc[t].scores)]
    /\ pc' = [pc EXCEPT ![t] = "sv_replace"]
    /\ UNCHANGED <<active_games, games, uuids, lock, now, loc, pending, sweep, result, call, hist, term>>

\* The files after os.replace(temp_file, filename).
Replaced(files, temp_file, filename) ==
    IF temp_file = filename THEN files
    ELSE [files EXCEPT ![filename] = files[temp_file], ![temp_file] = Corrupt]

\* os.replace(temp_file, filename), the lock's release, and the return: to
\* _handle_win (whose caller pops the session) or to the front end.
SaveScoreReplace(t) ==
    /\ pc[t] = "sv_replace"
    /\ scores' = Replaced(scores, TempName(loc[t].mode), loc[t].mode)
    /\ lock' = None
    /\ hist' = [hist EXCEPT !.puts =
                   Append(@, [mode |-> loc[t].mode, key |-> loc[t].key, value |-> loc[t].tmp])]
    /\ IF loc[t].ret = "win"
       THEN /\ pc' = [pc EXCEPT ![t] = "pg_pop"]
            /\ loc' = [loc EXCEPT ![t].tmp = games[loc[t].gid].attempts, ![t].scores = << >>]
            /\ UNCHANGED result
       ELSE Return(t, Res("save_score", "ok", 0))
    /\ UNCHANGED <<active_games, games, uuids, now, pending, sweep, call, term>>

\* ------------------------------------------------------------ get_scores
\* Lines 267-274: the file's table, or {} when open or json.load raises. No lock.
GetScores(t, mode) ==
    /\ pc[t] = "idle"
    /\ call' = [call EXCEPT ![t] = [NoCall EXCEPT !.op = "get_scores", !.mode = mode]]
    /\ Return(t, [Res("get_scores", "ok", 0) EXCEPT
                    !.scores = IF scores[mode].valid THEN scores[mode].table ELSE << >>])
    /\ UNCHANGED <<active_games, games, uuids, lock, now, scores, pending, sweep, hist, term>>

\* ------------------------------------------------------------ end_game
EndGame(t, gid) ==
    /\ pc[t] = "idle"
    /\ Called(t, "end_game", gid, None)
    /\ Goto(t, "eg_lock", [NoLoc EXCEPT !.gid = gid, !.ret = "end_game"])
    /\ UNCHANGED <<active_games, games, uuids, lock, now, scores, pending, sweep, hist, term>>

\* A pop that empties the registry.
PoppedAll(keys, game_id) == keys \ keys

\* self.active_games.pop(game_id, None): the keys left
Popped(keys, game_id) == keys \ {game_id}

\* with self._lock: (entering); threading.Lock is not reentrant
EndGameAcquire(t) ==
    /\ pc[t] = "eg_lock"
    /\ lock = None
    /\ lock' = <<t>>
    /\ pc' = [pc EXCEPT ![t] = "eg_body"]
    /\ UNCHANGED <<active_games, games, uuids, now, scores, loc, pending, sweep, result, call, hist, term>>

\* Lines 250-257 under the lock, the lock's release, and the return to the caller:
\* the front end, _validate_game_session (which raises "expired") or the cleanup loop.
EndGameBody(t) ==
    /\ pc[t] = "eg_body"
    /\ active_games' = Popped(active_games, loc[t].gid)
    /\ lock' = None
    /\ CASE loc[t].ret = "end_game" ->
              /\ Return(t, Res("end_game", "ok", loc[t].gid))
              /\ UNCHANGED sweep
         [] loc[t].ret = "expired" ->
              /\ Return(t, Err("process_guess", "expired", loc[t].gid))
              /\ UNCHANGED sweep
         [] loc[t].ret = "cleanup" ->
              /\ pc' = [pc EXCEPT ![t] = "cl_loop"]
              /\ loc' = [loc EXCEPT ![t] = NoLoc]
              /\ sweep' = [sweep EXCEPT !.expired = @ \ {loc[t].gid}]
              /\ UNCHANGED result
    /\ games' = Reachable(games, active_games', t)
    /\ UNCHANGED <<uuids, now, scores, pending, call, hist, term>>

\* ------------------------------------------------------------ _cleanup_expired_sessions
\* threading.Timer(300, ...) fires; now = datetime.now()
TimerFire(t) ==
    /\ pc[t] = "armed"
    /\ pc' = [pc EXCEPT ![t] = "cl_lock"]
    /\ sweep' = [now |-> now, expired |-> {}]
    /\ UNCHANGED <<active_games, games, uuids, lock, now, scores, loc, pending, result, call, hist, term>>

ExpiredGames(t) == {gid \in active_games : SessionTimedOut(games[gid], t)}

\* with self._lock: (entering), and the list comprehension of lines 87-90
CleanupAcquire(t) ==
    /\ pc[t] = "cl_lock"
    /\ lock = None
    /\ lock' = <<t>>
    /\ pc' = [pc EXCEPT ![t] = "cl_loop"]
    /\ sweep' = [sweep EXCEPT !.expired = ExpiredGames(sweep.now)]
    /\ UNCHANGED <<active_games, games, uuids, now, scores, loc, pending, result, call, hist, term>>

Min(S) == CHOOSE x \in S : \A y \in S : x <= y

\* for game_id in expired: self.end_game(game_id); after the loop the lock is
\* released and the next Timer is started. Releasing a lock that is not held
\* raises RuntimeError and the thread ends without starting the next Timer.
CleanupLoop(t) ==
    /\ pc[t] = "cl_loop"
    /\ IF sweep.expired # {}
       THEN /\ pc' = [pc EXCEPT ![t] = "eg_lock"]
            /\ loc' = [loc EXCEPT ![t] = [NoLoc EXCEPT !.gid = Min(sweep.expired), !.ret = "cleanup"]]
            /\ UNCHANGED <<lock, sweep>>
       ELSE IF lock = <<t>>
       THEN /\ lock' = None
            /\ pc' = [pc EXCEPT ![t] = "armed"]
            /\ sweep' = [now |-> 0, expired |-> {}]
            /\ UNCHANGED loc
       ELSE /\ pc' = [pc EXCEPT ![t] = "dead"]
            /\ UNCHANGED <<lock, loc, sweep>>
    /\ UNCHANGED <<active_games, games, uuids, now, scores, pending, result, call, hist, term>>

\* ------------------------------------------------------------ the clock
Tick ==
    /\ now < MaxTicks
    /\ now' = now + 1
    /\ UNCHANGED <<active_games, games, uuids, lock, scores, pc, loc, pending, sweep, result, call, hist, term>>

\* ------------------------------------------------------------ inputs
GameIds == 1..MaxGames
Difficulties == {"easy", "medium", "hard", "custom", "expert"}
CustomRanges == {None, <<0, 2>>, <<2, 2>>, <<2, 4>>, <<1, 1000000>>, <<999999, 1000001>>}
PlayerNames == {"", "ann", "bob"}
\* A call's number: not an int (None), or an int at or next to the ends of the game's range.
Numbers(gid) ==
    LET range == IF gid \in DOMAIN games THEN games[gid].range ELSE MULTI_RANGE
    IN {None} \cup {<<n>> : n \in {range[1] - 1, range[1], range[1] + 1, range[2], range[2] + 1}}

\* A call's number for the handlers that race: an int at an end of the game's range.
RangeEnds(gid) ==
    IF gid \in DOMAIN games THEN {<<games[gid].range[1]>>, <<games[gid].range[2]>>} ELSE {<<1>>}

\* The numbers the calls of a specification are made with: every case of Numbers,
\* or only RangeEnds.
Inputs(every, gid) == IF every THEN Numbers(gid) ELSE RangeEnds(gid)

Fresh == uuids < MaxGames

\* No session is open: a client holds one game id (session['game_id'] in app.py)
\* and, in the behaviours with this guard, starts its next game when the one
\* before is over.
Solo == active_games = {}

SingleStep(t, difficulties) ==
    \E d \in difficulties : \E c \in (IF d = "custom" THEN CustomRanges ELSE {None}) :
       /\ ResolveRange(d, c) # None => Fresh
       /\ StartSingleplayer(t, d, c)

MultiStep(t, names) ==
    \E p1 \in names : \E p2 \in names :
       /\ (p1 # "" /\ p2 # "" /\ p1 # p2) => Fresh
       /\ StartMultiplayer(t, p1, p2)

InsertStep(t) ==
    \/ InsertAcquire(t)
    \/ InsertBody(t)

TargetStep(t, every) ==
    \/ \E gid \in GameIds : \E n \in Inputs(every, gid) : SetTargetNumber(t, gid, n)
    \/ SetTargetWrite(t)

GuessStep(t, every) ==
    \/ \E gid \in GameIds : \E n \in Inputs(every, gid) :
          /\ gid \in DOMAIN games => games[gid].attempts < AttemptCap
          /\ ProcessGuess(t, gid, n)
    \/ GuessLoadAttempts(t)
    \/ GuessStoreAttempts(t)
    \/ GuessDecide(t)
    \/ GuessPop(t)

ScoreStep(t) ==
    \/ SaveScoreAcquire(t)
    \/ SaveScoreLoad(t)
    \/ SaveScoreOpenTemp(t)
    \/ SaveScoreDump(t)
    \/ SaveScoreReplace(t)

EndStep(t) ==
    \E gid \in GameIds : EndGame(t, gid)

LockedStep(t) ==
    \/ EndGameAcquire(t)
    \/ EndGameBody(t)

TimerStep ==
    \/ TimerFire(Timer)
    \/ CleanupAcquire(Timer)
    \/ CleanupLoop(Timer)

\* One request handler at a time, one session at a time; the clock stands still.
Next ==
    \/ Solo /\ SingleStep(1, Difficulties)
    \/ Solo /\ MultiStep(1, PlayerNames)
    \/ InsertStep(1)
    \/ TargetStep(1, TRUE)
    \/ GuessStep(1, TRUE)
    \/ ScoreStep(1)
    \/ EndStep(1)
    \/ LockedStep(1)

Spec == Init /\ [][Next]_vars

\* One request handler and one session at a time, the clock running beside it: easy single-player
\* games and multiplayer games still waiting for their number.
NextClock ==
    \/ Solo /\ SingleStep(1, {"easy"})
    \/ Solo /\ MultiStep(1, {"ann", "bob"})
    \/ InsertStep(1)
    \/ GuessStep(1, TRUE)
    \/ ScoreStep(1)
    \/ LockedStep(1)
    \/ Tick

SpecClock == Init /\ [][NextClock]_vars

\* One request handler and the cleanup timer.
CallerNextSweep ==
    \/ SingleStep(1, {"easy"})
    \/ MultiStep(1, {"ann", "bob"})
    \/ InsertStep(1)
    \/ GuessStep(1, TRUE)
    \/ ScoreStep(1)
    \/ EndStep(1)
    \/ LockedStep(1)

TimerNextSweep ==
    \/ LockedStep(Timer)
    \/ TimerStep

NextSweep ==
    \/ CallerNextSweep
    \/ TimerNextSweep
    \/ Tick

SpecSweep == Init /\ [][NextSweep]_vars

\* The same with the scheduler's fairness: each thread keeps being scheduled, and a
\* thread waiting for the lock gets it if the lock is released again and again.
SpecSweepFair == SpecSweep /\ SF_vars(CallerNextSweep) /\ SF_vars(TimerNextSweep)

\* Two request handlers racing on multiplayer games; the clock stands still and
\* the score files are readable. Handler 1 creates games, sets their number, guesses
\* and ends them; handler 2 guesses.
InitValid == Init /\ scores["single"].valid

NextConc ==
    \/ MultiStep(1, {"ann", "bob"})
    \/ InsertStep(1)
    \/ TargetStep(1, FALSE)
    \/ EndStep(1)
    \/ LockedStep(1)
    \/ \E t \in Callers : GuessStep(t, FALSE)

SpecConc == InitValid /\ [][NextConc]_vars

\* Two request threads on one multiplayer session: both may set the target, the
\* second may guess; nothing serialises the requests of one session.
NextTarget ==
    \/ MultiStep(1, {"ann", "bob"})
    \/ InsertStep(1)
    \/ \E t \in Callers : TargetStep(t, FALSE)
    \/ GuessStep(2, FALSE)

SpecTarget == InitValid /\ [][NextTarget]_vars

\* Two front-end threads using the score store: _save_score calls, MaxPuts of them
\* at most reaching the file, and get_scores calls.
Modes == {"single", "multi"}
ScoreKeys == {"easy", "hard"}
ScoreValues == {5, 7}
Saving(t) == pc[t] \in {"sv_lock", "sv_body", "sv_open", "sv_dump", "sv_replace"}
PutsStarted == Len(hist.puts) + Cardinality({t \in Callers : Saving(t)})

StoreStep(t) ==
    \/ \E mode \in Modes : \E key \in ScoreKeys : \E v \in ScoreValues :
          /\ PutsStarted < MaxPuts
          /\ SaveScore(t, mode, key, v)
    \/ \E mode \in Modes : GetScores(t, mode)
    \/ ScoreStep(t)

NextStore == \E t \in Callers : StoreStep(t)

SpecStore == Init /\ [][NextStore]_vars

\* Two request handlers creating sessions, MaxCreates of them at most; handler 1
\* also ends sessions.
CreateStep(t) ==
    /\ uuids < MaxCreates
    /\ \/ StartSingleplayer(t, "easy", None)
       \/ StartMultiplayer(t, "ann", "bob")

EndAnyStep(t) ==
    \E gid \in 1..MaxCreates : EndGame(t, gid)

NextCreate ==
    \/ \E t \in Callers : CreateStep(t)
    \/ \E t \in Callers : InsertStep(t)
    \/ EndAnyStep(1)
    \/ LockedStep(1)

SpecCreate == InitValid /\ [][NextCreate]_vars

\* ------------------------------------------------------------ terminal front ends
\* choose_difficulty's (level, n1, n2): the three fixed levels and a custom range.
Levels == {<<"Easy", 1, 50>>, <<"Medium", 1, 100>>, <<"Hard", 1, 500>>, <<"Custom", 2, 3>>}

\* MAX_ATTEMPTS of the module the round runs in.
TerminalMaxAttempts(mode) == IF mode = "single" THEN SINGLE_MAX_ATTEMPTS ELSE MULTI_MAX_ATTEMPTS

\* A loop test that lets one more iteration in.
LoopGoesOnLate(attempts, max) == attempts <= max

\* while attempts < MAX_ATTEMPTS:
LoopGoesOn(attempts, max) == attempts < max

\* What the player types at a prompt for a number in min_val..max_val: an int at
\* or just outside an end of the range, the secret, or text that is no int.
Typed(range, secret) ==
    {None} \cup {<<n>> : n \in {range[1] - 1, range[1], range[2], range[2] + 1, secret}}

ManagerUnchanged ==
    UNCHANGED <<active_games, games, uuids, lock, now, scores, pc, loc, pending, sweep,
                result, call, hist>>

\* exit() was called: the singleplayer program has ended.
Exited == term.mode = "single" /\ term.ending = "interrupted"

\* play_singleplayer up to its loop: the level is chosen and the number drawn.
PlaySingleplayer ==
    /\ term.pc \in {"menu", "over"}
    /\ ~Exited
    /\ \E level \in Levels : \E random_num \in TargetDraws(<<level[2], level[3]>>) :
          term' = [NoRound EXCEPT !.pc = "while", !.mode = "single", !.key = level[1],
                                  !.range = <<level[2], level[3]>>, !.secret = random_num]
    /\ ManagerUnchanged

\* play_round up to its loop: the chooser has typed the secret number.
PlayRound ==
    /\ term.pc \in {"menu", "over"}
    /\ ~Exited
    /\ \E secret_number \in {1, 50, 100} :
          term' = [NoRound EXCEPT !.pc = "while", !.mode = "multi", !.key = "bob",
                                  !.range = MULTI_RANGE, !.secret = secret_number]
    /\ ManagerUnchanged

\* The loop test. When it fails play_singleplayer is over; play_round prints that
\* the guesser ran out of attempts and returns MAX_ATTEMPTS.
LoopTest ==
    /\ term.pc = "while"
    /\ term' = IF LoopGoesOn(term.attempts, TerminalMaxAttempts(term.mode))
               THEN [term EXCEPT !.pc = "input"]
               ELSE [term EXCEPT !.pc = "over",
                                 !.ending = IF term.mode = "multi" THEN "out_of_attempts" ELSE @]
    /\ ManagerUnchanged

\* get_valid_number(prompt, n1, n2) and attempts += 1: text that is no int, or an
\* int outside the range, is asked for again and costs no attempt.
GetValidNumber ==
    /\ term.pc = "input"
    /\ \E num \in Typed(term.range, term.secret) :
          term' = IF IsInt(num) /\ InRange(num[1], term.range)
                  THEN [term EXCEPT !.guess = num, !.attempts = @ + 1, !.pc = "compare"]
                  ELSE [term EXCEPT !.guess = num]
    /\ ManagerUnchanged

\* Ctrl-C at the prompt. singleplayer.get_valid_number catches KeyboardInterrupt
\* and calls exit(); in multiplayer it leaves play_round and is caught by
\* play_multiplayer, which returns.
Interrupt ==
    /\ term.pc = "input"
    /\ term' = [term EXCEPT !.pc = "over", !.ending = "interrupted"]
    /\ ManagerUnchanged

\* The loop body after the guess: the win branch with its save call and break /
\* return, or the hint and, in play_singleplayer, the out-of-attempts message.
Compare ==
    /\ term.pc = "compare"
    /\ term' = IF term.guess[1] = term.secret
               THEN [term EXCEPT !.pc = "over", !.ending = "win",
                                 !.saved = <<term.key, term.attempts>>]
               ELSE [term EXCEPT !.pc = "while", !.wrong = @ + 1,
                                 !.ending = IF /\ term.mode = "single"
                                               /\ term.attempts = SINGLE_MAX_ATTEMPTS
                                            THEN "out_of_attempts" ELSE @]
    /\ ManagerUnchanged

NextTerminal ==
    \/ PlaySingleplayer
    \/ PlayRound
    \/ LoopTest
    \/ GetValidNumber
    \/ Interrupt
    \/ Compare

SpecTerminal == Init /\ [][NextTerminal]_vars

\* ============================================================ properties
\* Thread t's last call was op and has returned (or raised).
Returned(t, op) == pc[t] = "idle" /\ result[t].op = op

\* The call found its session in the registry, not timed out, and its number is an
\* int inside the session's range.
LiveCall(c) == c.live /\ ~c.stale
GuessInRange(c) == IsInt(c.arg) /\ InRange(c.arg[1], c.game.range)
GuessOutOfRange(c) == IsInt(c.arg) /\ ~InRange(c.arg[1], c.game.range)

\* C1: every process_guess on a live session (target set, not timed out) with an int
\* guess inside the range returns exactly one of win, lose, continue, and after win
\* or lose the id is no longer a key of the registry; a process_guess or
\* set_target_number on an id that is not a key raises the session error.
C1_ExactlyOneOutcome ==
    \A t \in Callers :
       /\ (/\ Returned(t, "process_guess")
           /\ LiveCall(call[t])
           /\ call[t].game.target # None
           /\ GuessInRange(call[t]))
          => /\ result[t].kind \in {"win", "lose", "continue"}
             /\ result[t].kind \in {"win", "lose"} => call[t].gid \notin active_games
       /\ (/\ Returned(t, "process_guess") \/ Returned(t, "set_target_number")
           /\ ~call[t].live)
          => result[t].kind = "error" /\ result[t].err = "invalid_session"

\* C2 as amended: on a live session that the call's timeout check does not expire,
\* a guess below range min or above range max raises an error and leaves the
\* session's dict (attempts, target, ...) and its key in the registry as they were.
C2_OutOfRangeGuessHasNoEffect ==
    \A t \in Callers :
       (/\ Returned(t, "process_guess")
        /\ LiveCall(call[t])
        /\ GuessOutOfRange(call[t]))
       => /\ result[t].kind = "error"
          /\ call[t].gid \in active_games
          /\ games[call[t].gid] = call[t].game

\* C2 as claimed: the same for any live session, timed out or not.
C2_OutOfRangeGuessAnyLiveSession ==
    \A t \in Callers :
       (/\ Returned(t, "process_guess")
        /\ call[t].live
        /\ GuessOutOfRange(call[t]))
       => /\ result[t].kind = "error"
          /\ call[t].gid \in active_games
          /\ games[call[t].gid] = call[t].game

\* C2's case: an out-of-range guess was rejected on a session that had already
\* counted a guess.
C2_Witness ==
    \E t \in Callers :
       /\ Returned(t, "process_guess")
       /\ LiveCall(call[t])
       /\ GuessOutOfRange(call[t])
       /\ result[t].err = "range"
       /\ call[t].game.attempts > 0

\* C3: in a single-mode session an in-range incorrect guess made when k-1 guesses
\* have been counted returns continue with attempts = k and remaining =
\* max_attempts - k while k < max_attempts (6), and lose with the true target, the
\* session removed, when k reaches max_attempts.
C3_ContinueThenLose ==
    \A t \in Callers :
       LET c == call[t]
           r == result[t]
           k == c.game.attempts + 1
       IN (/\ Returned(t, "process_guess")
           /\ LiveCall(c)
           /\ c.game.mode = "single"
           /\ GuessInRange(c)
           /\ c.arg # c.game.target)
          => IF k < MAX_ATTEMPTS["single"]
             THEN /\ r.kind = "continue"
                  /\ r.attempts = k
                  /\ r.remaining = MAX_ATTEMPTS["single"] - k
                  /\ c.gid \in active_games
                  /\ games[c.gid].attempts = k
             ELSE /\ r.kind = "lose"
                  /\ r.target = c.game.target
                  /\ c.gid \notin active_games

\* C3's case: the sixth incorrect guess has returned lose with the target.
C3_Witness ==
    \E t \in Callers :
       /\ Returned(t, "process_guess")
       /\ call[t].game.mode = "single"
       /\ call[t].game.attempts = MAX_ATTEMPTS["single"] - 1
       /\ result[t].kind = "lose"
       /\ result[t].target = call[t].game.target

\* C4: a process_guess on a multiplayer session that is waiting_for_number raises
\* an error and leaves the session in the registry, however many were made before.
C4_WaitingGuessFails ==
    \A t \in Callers :
       (/\ Returned(t, "process_guess")
        /\ LiveCall(call[t])
        /\ call[t].game.status = "waiting_for_number")
       => /\ result[t].kind = "error"
          /\ call[t].gid \in active_games

\* C5: when process_guess raises for a reason other than expiry, the session is
\* still in the registry with the dict (attempts, target, status) it had before.
C5_NoPartialMutation ==
    \A t \in Callers :
       (/\ Returned(t, "process_guess")
        /\ call[t].live
        /\ result[t].kind = "error"
        /\ result[t].err # "expired")
       => /\ call[t].gid \in active_games
          /\ games[call[t].gid] = call[t].game

\* C6: a single-mode guess equal to the target returns win and removes the session
\* also when the score file cannot be read.
C6_WinDespiteStoreFailure ==
    \A t \in Callers :
       (/\ Returned(t, "process_guess")
        /\ LiveCall(call[t])
        /\ call[t].game.mode = "single"
        /\ call[t].arg = call[t].game.target
        /\ ~scores["single"].valid)
       => /\ result[t].kind = "win"
          /\ call[t].gid \notin active_games

\* C7: no registry operation blocks for ever: every call a handler has started
\* returns, and the session-table lock, once taken, is released again.
C7_NoOperationBlocks ==
    /\ \A t \in Callers : (pc[t] # "idle") ~> (pc[t] = "idle")
    /\ (lock # None) ~> (lock = None)

\* C8: when a run of the cleanup completes, no session older than the idle timeout
\* (measured at the run's now, however old) is left in the registry, and the
\* sessions not older than it are still there, unchanged.
C8_SweepRemovesExactlyExpired ==
    [][(pc[Timer] = "cl_loop" /\ pc'[Timer] = "armed")
         => /\ \A gid \in active_games' : ~IdleTimeoutExceeded(games'[gid], sweep.now)
            /\ \A gid \in active_games :
                  ~IdleTimeoutExceeded(games[gid], sweep.now)
                     => gid \in active_games' /\ games'[gid] = games[gid]]_vars

\* C9: every run of the cleanup is followed by the next Timer being started.
C9_SweepAlwaysRearms ==
    (pc[Timer] = "cl_lock") ~> (pc[Timer] = "armed")

\* C10: the mutating operations are serialized: no two threads are at once inside
\* a read-modify-write of the session table, or of the same session's dict.
TableSection(t) == pc[t] \in {"ins_body", "eg_body", "cl_loop", "pg_pop"}
RecordSection(t, gid) ==
    pc[t] \in {"pg_write", "pg_decide", "pg_pop", "st_write"} /\ loc[t].gid = gid

C10_Serialized ==
    \A t \in Threads : \A u \in Threads \ {t} :
       /\ ~(TableSection(t) /\ TableSection(u))
       /\ \A gid \in GameIds : ~(RecordSection(t, gid) /\ RecordSection(u, gid))

\* C11: in every reachable state every session in the registry has attempts <=
\* max_attempts, and once a process_guess has returned, the session it named is
\* not in the registry with attempts at (or past) max_attempts.
C11_AttemptsWithinCeiling ==
    /\ \A gid \in active_games : games[gid].attempts <= games[gid].max_attempts
    /\ \A t \in Callers :
          (Returned(t, "process_guess") /\ call[t].gid \in active_games)
          => games[call[t].gid].attempts < games[call[t].gid].max_attempts

\* C12: once a session's removal is committed, no operation treats it as present:
\* a process_guess or set_target_number that returns when the id it names is no
\* longer a key of the registry (the call made then, or made before the removal and
\* still running) returns an error, never win, lose, continue or success.
C12_NoUseAfterRemoval ==
    [][\A t \in Callers :
          LET gid == IF pc[t] = "idle" THEN call'[t].gid ELSE loc[t].gid
          IN (/\ pc'[t] = "idle"
              /\ pc[t] # "idle" \/ call'[t] # call[t]
              /\ result'[t].op \in {"process_guess", "set_target_number"}
              /\ gid \notin active_games)
             => result'[t].kind = "error"]_vars

\* C13: a process_guess on a session in the registry whose elapsed time since
\* start_time exceeds the idle timeout, however long it is, fails with the
\* session-expired error and removes the session; it never returns win, lose or
\* continue and never counts the guess.
C13_StaleSessionNeverGuessed ==
    \A t \in Callers :
       (Returned(t, "process_guess") /\ call[t].idle)
       => /\ result[t].kind = "error"
          /\ result[t].err = "expired"
          /\ call[t].gid \notin active_games

\* C14: set_target_number on a multiplayer session that is waiting_for_number, with
\* a number below range min or above range max, raises an error and leaves the
\* session in the registry with status, target and attempts as they were.
C14_OutOfRangeTargetHasNoEffect ==
    \A t \in Callers :
       (/\ Returned(t, "set_target_number")
        /\ call[t].live
        /\ call[t].game.status = "waiting_for_number"
        /\ GuessOutOfRange(call[t]))
       => /\ result[t].kind = "error"
          /\ call[t].gid \in active_games
          /\ games[call[t].gid] = call[t].game
          /\ games[call[t].gid].status = "waiting_for_number"
          /\ games[call[t].gid].target = None

\* C14's case: an out-of-range number was refused on a waiting session.
C14_Witness ==
    \E t \in Callers :
       /\ Returned(t, "set_target_number")
       /\ call[t].live
       /\ call[t].game.status = "waiting_for_number"
       /\ GuessOutOfRange(call[t])
       /\ result[t].err = "range"

\* C15: a valid set_target_number on a waiting session stores the number, sets
\* attempts to 0 and status to in_progress; a set_target_number on an in_progress
\* session raises and changes nothing; and no step takes a session's status from
\* in_progress back to waiting_for_number, so the transition happens once.
C15_TargetSetExactlyOnce ==
    /\ [](\A t \in Callers :
            LET c == call[t] IN
            /\ (/\ Returned(t, "set_target_number")
                /\ c.live
                /\ c.game.status = "waiting_for_number"
                /\ GuessInRange(c))
               => /\ result[t].kind = "ok"
                  /\ c.gid \in active_games
                  /\ games[c.gid] = [c.game EXCEPT !.target = c.arg, !.attempts = 0,
                                                   !.status = "in_progress"]
            /\ (/\ Returned(t, "set_target_number")
                /\ c.live
                /\ c.game.status = "in_progress")
               => /\ result[t].kind = "error"
                  /\ c.gid \in active_games
                  /\ games[c.gid] = c.game)
    /\ [][\A gid \in DOMAIN games \cap DOMAIN games' :
             games[gid].status = "in_progress" => games'[gid].status = "in_progress"]_vars

\* C15's case: a second set_target_number, on a session already in_progress with
\* guesses counted, was refused.
C15_Witness ==
    \E t \in Callers :
       /\ Returned(t, "set_target_number")
       /\ call[t].live
       /\ call[t].game.status = "in_progress"
       /\ call[t].game.attempts > 0
       /\ GuessInRange(call[t])
       /\ result[t].err = "phase"

\* The values put so far under (mode, key), in the order the file took them.
PutValues(mode, key) ==
    LET ps == SelectSeq(hist.puts, LAMBDA p : p.mode = mode /\ p.key = key)
    IN [i \in DOMAIN ps |-> ps[i].value]

\* C16: starting from tables without the key, after any sequence of puts the value
\* stored under a key is the minimum of the values put there in single mode and
\* the last value put there in multi mode; a key never put is not in the table.
C16_PutSemantics ==
    \A mode \in Modes : \A key \in ScoreKeys :
       LET vs == PutValues(mode, key) IN
       IF vs = << >>
       THEN scores[mode].valid => key \notin DOMAIN scores[mode].table
       ELSE /\ scores[mode].valid
            /\ key \in DOMAIN scores[mode].table
            /\ scores[mode].table[key] =
                  IF mode = "single" THEN Min({vs[i] : i \in DOMAIN vs}) ELSE vs[Len(vs)]

\* C16's case: put(single, key, 5) and then put(single, key, 7) have been made,
\* and the file holds 5 under the key.
C16_Witness ==
    \E key \in ScoreKeys :
       /\ PutValues("single", key) = <<5, 7>>
       /\ scores["single"].table[key] = 5

\* C17: no single-mode put is lost: once a put has returned, the file holds its key
\* with a value no larger than the one it put, whatever another thread's put on
\* the same or another key did meanwhile; and every stored value was put.
C17_NoLostUpdate ==
    /\ \A t \in Callers :
          (/\ Returned(t, "save_score")
           /\ result[t].kind = "ok"
           /\ call[t].mode = "single")
          => /\ scores["single"].valid
             /\ call[t].key \in DOMAIN scores["single"].table
             /\ scores["single"].table[call[t].key] <= call[t].arg[1]
    /\ scores["single"].valid =>
          \A key \in DOMAIN scores["single"].table :
             \E i \in DOMAIN hist.puts :
                hist.puts[i] = [mode |-> "single", key |-> key,
                                value |-> scores["single"].table[key]]

\* C17's case: one thread's put on a key has returned and another thread's put on
\* the other key is about to replace the file with a table that holds both.
C17_Witness ==
    \E t \in Callers : \E u \in Callers \ {t} :
       /\ Returned(t, "save_score")
       /\ result[t].kind = "ok"
       /\ call[t].mode = "single"
       /\ pc[u] = "sv_replace"
       /\ loc[u].mode = "single"
       /\ loc[u].key # call[t].key
       /\ DOMAIN loc[u].scores = {loc[u].key, call[t].key}

\* C18: the durable score file never stops holding a complete table: each step
\* leaves it as it was or takes it, whole, to the table after one put; and a
\* get_scores returns the file's complete table.
C18_DurableFileAlwaysComplete ==
    [][\A mode \in Modes :
          /\ scores[mode].valid
             => /\ scores'[mode].valid
                /\ \/ scores'[mode] = scores[mode]
                   \/ \E t \in Callers :
                         /\ pc[t] = "sv_replace"
                         /\ loc[t].mode = mode
                         /\ scores'[mode].table =
                               PutScore(mode, scores[mode].table, loc[t].key, loc[t].tmp)
          /\ \A t \in Callers :
                (/\ pc[t] = "idle"
                 /\ pc'[t] = "idle"
                 /\ result'[t] # result[t] \/ call'[t] # call[t]
                 /\ result'[t].op = "get_scores"
                 /\ call'[t].mode = mode
                 /\ scores[mode].valid)
                => result'[t].scores = scores[mode].table]_vars

\* C18's case: a get_scores has returned the complete table of a first put while a
\* second put has its temporary file open and still empty.
C18_Witness ==
    \E t \in Callers : \E u \in Callers \ {t} :
       /\ Returned(t, "get_scores")
       /\ result[t].scores # << >>
       /\ pc[u] = "sv_dump"
       /\ loc[u].mode = call[t].mode
       /\ scores[TempName(loc[u].mode)] = Corrupt
       /\ scores[loc[u].mode] = ScoreFile(result[t].scores)

\* C19: a score file that cannot be read counts as the empty table: get_scores
\* returns the empty mapping without raising, and _save_score completes without an
\* error, leaving a table that holds its key.
C19_CorruptTableIsEmpty ==
    \A t \in Callers :
       /\ (Returned(t, "get_scores") /\ ~scores[call[t].mode].valid)
          => result[t].kind = "ok" /\ result[t].scores = << >>
       /\ Returned(t, "save_score")
          => /\ result[t].kind = "ok"
             /\ scores[call[t].mode].valid
             /\ call[t].key \in DOMAIN scores[call[t].mode].table

\* A start_* call of thread t has its id and has not returned yet.
Creating(t) == pc[t] \in {"ins_lock", "ins_body"}

C21_CustomRangeValidation ==
    \A t \in Callers :
       LET c == call[t]
           r == result[t]
       IN (/\ Returned(t, "start_singleplayer")
           /\ c.key = "custom"
           /\ Len(c.arg) = 2)
          => IF c.arg[1] < 1 \/ c.arg[2] <= c.arg[1] \/ c.arg[2] > 1000000
             THEN /\ r.kind = "error"
                  /\ active_games = {}
                  /\ hist.created = << >> \/ hist.created[Len(hist.created)] \notin active_games
             ELSE /\ r.kind = "ok"
                  /\ r.range = c.arg
                  /\ r.gid \in active_games
                  /\ games[r.gid].range = c.arg
                  /\ games[r.gid].mode = "single"

\* C21's case: the widest custom range allowed, (1, 1000000), has been accepted.
C21_Witness ==
    \E t \in Callers :
       /\ Returned(t, "start_singleplayer")
       /\ call[t].key = "custom"
       /\ call[t].arg = <<1, 1000000>>
       /\ result[t].kind = "ok"
       /\ games[result[t].gid].range = <<1, 1000000>>

\* C22: in every reachable state every session whose target is set has
\* range min <= target <= range max; and start_singleplayer returns the range
\* (1,50) for easy, (1,100) for medium and (1,500) for hard, which is the session's.
C22_TargetWithinRange ==
    /\ \A gid \in DOMAIN games :
          games[gid].target # None
          => /\ games[gid].range[1] <= games[gid].target[1]
             /\ games[gid].target[1] <= games[gid].range[2]
    /\ \A t \in Callers :
          (/\ Returned(t, "start_singleplayer")
           /\ call[t].key \in {"easy", "medium", "hard"})
          => /\ result[t].kind = "ok"
             /\ result[t].range = CASE call[t].key = "easy" -> <<1, 50>>
                                    [] call[t].key = "medium" -> <<1, 100>>
                                    [] call[t].key = "hard" -> <<1, 500>>
             /\ result[t].gid \in active_games
                => games[result[t].gid].range = result[t].range

\* C22's case: a hard game was started with range (1,500) and its target drawn at
\* the upper end.
C22_Witness ==
    \E t \in Callers :
       /\ Returned(t, "start_singleplayer")
       /\ call[t].key = "hard"
       /\ result[t].range = <<1, 500>>
       /\ result[t].gid \in active_games
       /\ games[result[t].gid].target = <<500>>

\* C23: start_multiplayer raises and adds no session when a name is empty or the
\* two names are equal; otherwise it adds one session, waiting_for_number, with
\* no target, range (1,100), max_attempts 8 and attempts 0, and returns its id.
C23_MultiplayerCreation ==
    \A t \in Callers :
       LET c == call[t]
           r == result[t]
       IN Returned(t, "start_multiplayer")
          => IF c.arg[1] = "" \/ c.arg[2] = "" \/ c.arg[1] = c.arg[2]
             THEN /\ r.kind = "error"
                  /\ active_games = {}
             ELSE /\ r.kind = "ok"
                  /\ r.range = <<1, 100>>
                  /\ r.max_attempts = 8
                  /\ active_games = {r.gid}
                  /\ games[r.gid].mode = "multi"
                  /\ games[r.gid].status = "waiting_for_number"
                  /\ games[r.gid].target = None
                  /\ games[r.gid].range = <<1, 100>>
                  /\ games[r.gid].max_attempts = 8
                  /\ games[r.gid].attempts = 0

\* C23's case: a multiplayer session was created for two different names.
C23_Witness ==
    \E t \in Callers :
       /\ Returned(t, "start_multiplayer")
       /\ call[t].arg = <<"ann", "bob">>
       /\ result[t].kind = "ok"
       /\ games[result[t].gid].status = "waiting_for_number"

\* C24: end_game is idempotent and local: it raises no error, on an absent id as on
\* a present one; the step that ends id g leaves the registry without g and with
\* every other session as it was (so on an absent id, and the second time on the
\* same id, nothing changes).
C24_EndGameIdempotentLocal ==
    /\ [](\A t \in Callers : Returned(t, "end_game") => result[t].kind = "ok")
    /\ [][\A t \in Callers :
             (/\ pc[t] = "eg_body"
              /\ pc'[t] = "idle"
              /\ loc[t].ret = "end_game")
             => /\ active_games' = active_games \ {loc[t].gid}
                /\ loc[t].gid \notin active_games => active_games' = active_games
                /\ \A gid \in active_games' : games'[gid] = games[gid]]_vars

\* C24's case: an end_game on an id that was not in the registry (never created, or
\* ended before) has returned while other sessions are open.
C24_Witness ==
    \E t \in Callers :
       /\ Returned(t, "end_game")
       /\ ~call[t].live
       /\ result[t].kind = "ok"
       /\ Cardinality(active_games) >= 2

\* C25: the target of a session is immutable once set: no step, of two
\* set_target_number calls racing on one waiting session or of a set_target_number
\* racing with process_guess, changes a session's target from one integer to a
\* different integer, and no step takes attempts back to 0 once a guess was
\* counted against the target.
C25_TargetImmutable ==
    [][\A gid \in active_games \cap active_games' :
          /\ (IsInt(games[gid].target) /\ IsInt(games'[gid].target))
             => games'[gid].target = games[gid].target
          /\ (IsInt(games[gid].target) /\ games[gid].attempts > 0)
             => games'[gid].attempts > 0]_vars

\* C26: attempts counts accepted guesses exactly, also when several process_guess
\* calls on one session run concurrently: the step in which an accepted guess on a
\* session with its target set is counted raises the session's attempts by exactly
\* one, so no accepted guess is lost or counted twice.
C26_AttemptsCountExact ==
    [][\A t \in Callers :
          (/\ pc[t] = "pg_write"
           /\ pc'[t] = "pg_decide"
           /\ IsInt(games[loc[t].gid].target))
          => games'[loc[t].gid].attempts = games[loc[t].gid].attempts + 1]_vars

\* C27: win takes precedence over lose: a guess equal to the target made as the
\* last allowed attempt returns win reporting attempts = max_attempts, never lose,
\* with the session removed, and for single mode (difficulty, attempts) was put
\* into the score store, while the session was still in the registry.
C27_WinAtLastAttempt ==
    \A t \in Callers :
       LET c == call[t]  r == result[t]
       IN /\ (/\ Returned(t, "process_guess")
              /\ LiveCall(c)
              /\ IsInt(c.arg)
              /\ c.arg = c.game.target
              /\ c.game.attempts = c.game.max_attempts - 1)
             => /\ r.kind = "win"
                /\ r.attempts = c.game.max_attempts
                /\ c.gid \notin active_games
                /\ c.game.mode = "single"
                   => \E i \in DOMAIN hist.puts :
                         hist.puts[i] = [mode |-> "single", key |-> c.game.difficulty,
                                         value |-> c.game.max_attempts]
          /\ (/\ pc[t] = "pg_pop"
              /\ loc[t].ret = "win"
              /\ c.game.mode = "single")
             => /\ c.gid \in active_games
                /\ \E i \in DOMAIN hist.puts :
                      hist.puts[i] = [mode |-> "single", key |-> c.game.difficulty,
                                      value |-> games[c.gid].attempts]

\* C28: every continue outcome carries a truthful direction hint: the hint is
\* "lower" exactly when the guess is above the target and "higher" exactly when it
\* is below, and the reported attempts and remaining sum to max_attempts.
C28_TruthfulHint ==
    \A t \in Callers :
       LET c == call[t]  r == result[t]
       IN (Returned(t, "process_guess") /\ r.kind = "continue")
          => /\ IsInt(c.arg)
             /\ IsInt(c.game.target)
             /\ r.hint \in {"lower", "higher"}
             /\ r.hint = "lower" <=> c.arg[1] > c.game.target[1]
             /\ r.hint = "higher" <=> c.arg[1] < c.game.target[1]
             /\ r.attempts = c.game.attempts + 1
             /\ r.attempts + r.remaining = c.game.max_attempts

\* C28's case: a guess above the target, not the session's first, was answered
\* with continue and "lower", with attempts left.
C28_Witness ==
    \E t \in Callers :
       /\ Returned(t, "process_guess")
       /\ result[t].kind = "continue"
       /\ result[t].hint = "lower"
       /\ call[t].arg[1] > call[t].game.target[1]
       /\ result[t].attempts > 1
       /\ result[t].remaining > 0

\* The round of the terminal game is over.
RoundOver == term.pc = "over"

\* C29 as amended: a terminal round takes at most MAX_ATTEMPTS in-range guesses (6
\* in play_singleplayer, 8 in play_round); a round that is not interrupted at a
\* prompt ends in exactly one of two ways: a win at the first guess equal to the
\* secret, the attempt count being passed to the score saver, or out of attempts
\* after exactly MAX_ATTEMPTS incorrect guesses, with no score saved; a round
\* interrupted at a prompt ends without either and saves no score.
C29_TerminalRoundEndings ==
    LET max == TerminalMaxAttempts(term.mode)
    IN /\ term.attempts <= max
       /\ term.wrong <= term.attempts
       /\ RoundOver
          => /\ term.ending \in {"win", "out_of_attempts", "interrupted"}
             /\ term.ending = "win"
                => /\ term.guess = <<term.secret>>
                   /\ term.wrong = term.attempts - 1
                   /\ term.saved = <<term.key, term.attempts>>
             /\ term.ending = "out_of_attempts"
                => /\ term.attempts = max
                   /\ term.wrong = max
                   /\ term.saved = None
             /\ term.ending = "interrupted"
                => /\ term.attempts < max
                   /\ term.wrong = term.attempts
                   /\ term.saved = None
       /\ ~RoundOver => term.saved = None

\* C29 as stated: every terminal round that is over ended with a win or out of
\* attempts.
C29_TwoEndingsOnly ==
    RoundOver => term.ending \in {"win", "out_of_attempts"}

\* C29's case: a play_round round won with the last of its 8 attempts, the count
\* passed to save_score.
C29_Witness ==
    /\ RoundOver
    /\ term.mode = "multi"
    /\ term.ending = "win"
    /\ term.attempts = MULTI_MAX_ATTEMPTS
    /\ term.wrong = MULTI_MAX_ATTEMPTS - 1
    /\ term.saved = <<"bob", MULTI_MAX_ATTEMPTS>>

====
